---- MODULE Spec2Model ----
(***************************************************************************)
(* Task trackers of the avatar and virtual try-on services and the match   *)
(* orchestrator of the product matching service (ai-services).             *)
(*                                                                         *)
(* Each service runs on one asyncio event loop.  A step of a background    *)
(* worker is the code between two awaits of an external collaborator       *)
(* (model endpoint, download, blob storage, database); those awaits are    *)
(* the only points where other coroutines interleave.  structlog calls     *)
(* are taken to return normally.  uuid4 identifiers are modelled by a      *)
(* counter, timestamps by the order of the events that take them.          *)
(*                                                                         *)
(* av_tasks and to_tasks are the active_tasks maps themselves.  A worker   *)
(* keeps a reference to its task object after the entry was removed from   *)
(* the map; nothing else can reach that object, so writes to it are not    *)
(* recorded, only the worker's position and its effects on the            *)
(* collaborators are.  Inputs of a task that the worker reads once         *)
(* (image urls, measurements, settings) are chosen where they are read.    *)
(***************************************************************************)
EXTENDS Integers, Sequences, FiniteSets, TLC

\* ---------------------------------------------------------------- bounds
MaxAvatarTasks == 2
MaxTryOnTasks == 1

Users == {"u1", "u2"}
AvatarIds == 1..MaxAvatarTasks
TryOnIds == 1..MaxTryOnTasks

\* Python's None for an optional field; present values are non-empty tuples.
None == << >>

VARIABLES
    av_tasks,      \* AvatarService.active_tasks: task id -> task dict
    av_pc,         \* position of the _generate_avatar coroutine of each task created
    av_blobs,      \* blob storage: task ids with avatars/<id>/avatar.png
    to_tasks,      \* VirtualTryOnService.active_tasks: task id -> TryOnTask
    to_pc,         \* position of the _process_try_on coroutine of each task created
    to_blobs,      \* blob storage: task ids with tryon-results/<id>.jpg
    to_rows,       \* database table tryon_results: ids of the inserted rows
    to_order,      \* ids in to_tasks ordered by updated_at, oldest first
    processing_queue, \* VirtualTryOnService.processing_queue
    resp,          \* outcome of the end-user call made in the last step, if it was one
    matching_cache,  \* ProductMatchingService.matching_cache: match id -> MatchResult
    pm_rows,       \* database table product_matches: ids of the inserted rows
    pm_calls,      \* number of find_matches calls made so far (the next uuid4)
    fm,            \* frame of the find_matches call: position and locals
    adapter_calls, \* searches the adapters answered during the call, in order
    pm_resp,       \* outcome of the find_matches call
    fn_call,       \* the scoring function applied last and its arguments
    fn_result,     \* what it returned
    cp,            \* frame of the compare_prices call: position and arguments
    price_calls,   \* platforms whose adapter was asked for a price during the call
    cp_resp        \* outcome of the compare_prices call

vars == <<av_tasks, av_pc, av_blobs, to_tasks, to_pc, to_blobs, to_rows,
          to_order, processing_queue, resp,
          matching_cache, pm_rows, pm_calls, fm, adapter_calls, pm_resp,
          fn_call, fn_result, cp, price_calls, cp_resp>>
pm_vars == <<matching_cache, pm_rows, pm_calls, fm, adapter_calls, pm_resp>>
fn_vars == <<fn_call, fn_result>>
cp_vars == <<cp, price_calls, cp_resp>>
match_vars == <<pm_vars, fn_vars, cp_vars>>
tracker_vars == <<av_tasks, av_pc, av_blobs, to_tasks, to_pc, to_blobs, to_rows,
                  to_order, processing_queue, resp>>
av_vars == <<av_tasks, av_pc, av_blobs>>
to_vars == <<to_tasks, to_pc, to_blobs, to_rows, to_order, processing_queue>>

\* the map m without key t (del m[t])
Without(m, t) == [x \in DOMAIN m \ {t} |-> m[x]]

\* ---------------------------------------------------------------- responses
NoResp == [svc |-> "none", op |-> "none", task |-> 0, user |-> "none",
           outcome |-> "none", status |-> "none", progress |-> 0,
           result |-> None, error |-> None, http_status |-> 0, listed |-> << >>]

Raised(svc, op, t, u, what) ==
    [NoResp EXCEPT !.svc = svc, !.op = op, !.task = t, !.user = u, !.outcome = what]

Returned(svc, op, t, u) ==
    [NoResp EXCEPT !.svc = svc, !.op = op, !.task = t, !.user = u, !.outcome = "ok"]

\* ---------------------------------------------------------------- avatar service
\* progress checkpoints of _generate_avatar
AvProgressAnalyze == 20
AvProgressBase == 40
AvProgressFace == 60
AvProgressBody == 80
AvProgressSave == 90
AvProgressDone == 100

\* body_measurements['height'] values: one that makes the BMI division fail
Heights == {0, 170}

AvCreated == DOMAIN av_pc
AvActive == DOMAIN av_tasks

\* start_generation with a task that is born past its first checkpoint
AvNewTask_Started(t, u) ==
    [id |-> t, user_id |-> u, status |-> "processing", progress |-> AvProgressAnalyze,
     created_at |-> t, message |-> "", result |-> None, error |-> None]

\* the task_data dict of start_generation
AvNewTask(t, u) ==
    [id |-> t, user_id |-> u, status |-> "processing", progress |-> 0,
     created_at |-> t, message |-> "", result |-> None, error |-> None]

start_generation(u) ==
    /\ Cardinality(AvCreated) < MaxAvatarTasks
    /\ LET t == Cardinality(AvCreated) + 1 IN
        /\ av_tasks' = av_tasks @@ (t :> AvNewTask(t, u))
        /\ av_pc' = av_pc @@ (t :> "start")
        /\ resp' = Returned("avatar", "start_generation", t, u)
    /\ UNCHANGED <<av_blobs, to_vars, match_vars>>

\* _update_task_progress writing the progress of every entry of the map
AvUpdateProgress_All(tasks, t, p, msg) ==
    IF t \in DOMAIN tasks
    THEN [x \in DOMAIN tasks |-> [tasks[x] EXCEPT !.progress = p, !.message = msg]]
    ELSE tasks

\* _update_task_progress: writes only when the id is still in the map
AvUpdateProgress(tasks, t, p, msg) ==
    IF t \in DOMAIN tasks
    THEN [tasks EXCEPT ![t].progress = p, ![t].message = msg]
    ELSE tasks

\* the except branch without task['error'] = str(e)
AvFail_NoError(tasks, t, msg) ==
    IF t \in DOMAIN tasks
    THEN [tasks EXCEPT ![t].status = "failed"]
    ELSE tasks

\* an except branch that records nothing on the task
AvFail_Swallow(tasks, t, msg) == tasks

\* the except branch of _generate_avatar: writes through the local `task`
AvFail(tasks, t, msg) ==
    IF t \in DOMAIN tasks
    THEN [tasks EXCEPT ![t].status = "failed", ![t].error = <<msg>>]
    ELSE tasks

\* step 5 up to the await of upload_blob
AvToUpload(tasks, t) ==
    /\ av_tasks' = AvUpdateProgress(tasks, t, AvProgressSave, "Saving avatar...")
    /\ av_pc' = [av_pc EXCEPT ![t] = "upload"]

\* step 4 up to its await; body is task['body_image_url']
AvToBody(tasks, t, body) ==
    IF body
    THEN /\ av_tasks' = AvUpdateProgress(tasks, t, AvProgressBody,
                                         "Applying body features...")
         /\ av_pc' = [av_pc EXCEPT ![t] = "body"]
    ELSE AvToUpload(tasks, t)

\* step 3 reporting the progress of step 1
AvToFace_Regress(tasks, t, face, body) ==
    IF face
    THEN /\ av_tasks' = AvUpdateProgress(tasks, t, AvProgressAnalyze,
                                         "Applying face features...")
         /\ av_pc' = [av_pc EXCEPT ![t] = "face"]
    ELSE AvToBody(tasks, t, body)

\* step 3 up to its await; face is task['face_image_url']
AvToFace(tasks, t, face, body) ==
    IF face
    THEN /\ av_tasks' = AvUpdateProgress(tasks, t, AvProgressFace,
                                         "Applying face features...")
         /\ av_pc' = [av_pc EXCEPT ![t] = "face"]
    ELSE AvToBody(tasks, t, body)

\* _generate_avatar from its first line to the await inside _generate_avatar_image
AvatarBegin(t, height) ==
    /\ t \in AvCreated /\ av_pc[t] = "start"
    /\ IF t \notin AvActive
       THEN \* self.active_tasks[task_id] raises KeyError outside the try
            /\ av_pc' = [av_pc EXCEPT ![t] = "crashed"]
            /\ UNCHANGED av_tasks
       ELSE LET t1 == AvUpdateProgress(av_tasks, t, AvProgressAnalyze,
                                       "Analyzing body measurements...") IN
            IF height = 0
            THEN \* _create_base_avatar_prompt divides by height_m * height_m
                 /\ av_tasks' = AvFail(t1, t, "float division by zero")
                 /\ av_pc' = [av_pc EXCEPT ![t] = "done"]
            ELSE /\ av_tasks' = AvUpdateProgress(t1, t, AvProgressBase,
                                                 "Generating base avatar...")
                 /\ av_pc' = [av_pc EXCEPT ![t] = "gen"]
    /\ resp' = NoResp
    /\ UNCHANGED <<av_blobs, to_vars, match_vars>>

\* _generate_avatar_image returns or raises
AvatarImageReturn(t, ok, face, body) ==
    /\ t \in AvCreated /\ av_pc[t] = "gen"
    /\ IF ok
       THEN AvToFace(av_tasks, t, face, body)
       ELSE /\ av_tasks' = AvFail(av_tasks, t, "Avatar image generation failed")
            /\ av_pc' = [av_pc EXCEPT ![t] = "done"]
    /\ resp' = NoResp
    /\ UNCHANGED <<av_blobs, to_vars, match_vars>>

\* _apply_face_features returns the base image whether or not the download worked
AvatarFaceReturn(t, ok, body) ==
    /\ t \in AvCreated /\ av_pc[t] = "face"
    /\ AvToBody(av_tasks, t, body)
    /\ resp' = NoResp
    /\ UNCHANGED <<av_blobs, to_vars, match_vars>>

\* _apply_body_features returns the avatar image whether or not the download worked
AvatarBodyReturn(t, ok) ==
    /\ t \in AvCreated /\ av_pc[t] = "body"
    /\ AvToUpload(av_tasks, t)
    /\ resp' = NoResp
    /\ UNCHANGED <<av_blobs, to_vars, match_vars>>

\* step 6 of _generate_avatar after a successful upload
AvComplete(tasks, t) ==
    LET t1 == AvUpdateProgress(tasks, t, AvProgressDone, "Avatar generation complete!")
    IN IF t \in DOMAIN t1
       THEN [t1 EXCEPT ![t].status = "completed", ![t].result = <<"avatars", t>>]
       ELSE t1

\* _upload_avatar returns the blob url or raises
AvatarUploadReturn(t, ok) ==
    /\ t \in AvCreated /\ av_pc[t] = "upload"
    /\ IF ok
       THEN /\ av_blobs' = av_blobs \cup {t}
            /\ av_tasks' = AvComplete(av_tasks, t)
       ELSE /\ av_blobs' = av_blobs
            /\ av_tasks' = AvFail(av_tasks, t, "Avatar upload failed")
    /\ av_pc' = [av_pc EXCEPT ![t] = "done"]
    /\ resp' = NoResp
    /\ UNCHANGED <<to_vars, match_vars>>

\* the snapshot dict get_status returns
AvSnapshot(t, u) ==
    [Returned("avatar", "get_status", t, u) EXCEPT
        !.status = av_tasks[t].status, !.progress = av_tasks[t].progress,
        !.result = av_tasks[t].result, !.error = av_tasks[t].error]

\* get_status without the ownership check
AvGetStatus_NoOwnerCheck(t, u) ==
    IF t \notin AvActive
    THEN Raised("avatar", "get_status", t, u, "not_found")
    ELSE AvSnapshot(t, u)

AvGetStatus(t, u) ==
    IF t \notin AvActive
    THEN Raised("avatar", "get_status", t, u, "not_found")
    ELSE IF av_tasks[t].user_id # u
    THEN Raised("avatar", "get_status", t, u, "not_authorized")
    ELSE AvSnapshot(t, u)

avatar_get_status(t, u) ==
    /\ resp' = AvGetStatus(t, u)
    /\ UNCHANGED <<av_vars, to_vars, match_vars>>

\* whether delete_avatar has to delete the blob
AvHasBlob(t) == av_tasks[t].status = "completed" /\ av_tasks[t].result # None

\* delete_avatar without the ownership check
delete_avatar_NoOwnerCheck(t, u, blobOk) ==
    /\ IF t \notin AvActive
       THEN /\ resp' = Raised("avatar", "delete_avatar", t, u, "not_found")
            /\ UNCHANGED <<av_tasks, av_blobs>>
       ELSE IF AvHasBlob(t) /\ (~blobOk \/ t \notin av_blobs)
       THEN /\ resp' = Raised("avatar", "delete_avatar", t, u, "deletion_failed")
            /\ UNCHANGED <<av_tasks, av_blobs>>
       ELSE /\ av_blobs' = IF AvHasBlob(t) THEN av_blobs \ {t} ELSE av_blobs
            /\ av_tasks' = Without(av_tasks, t)
            /\ resp' = Returned("avatar", "delete_avatar", t, u)
    /\ UNCHANGED <<av_pc, to_vars, match_vars>>

\* delete_avatar removing the task from active_tasks before the blob deletion
delete_avatar_RemoveFirst(t, u, blobOk) ==
    /\ IF t \notin AvActive
       THEN /\ resp' = Raised("avatar", "delete_avatar", t, u, "not_found")
            /\ UNCHANGED <<av_tasks, av_blobs>>
       ELSE IF av_tasks[t].user_id # u
       THEN /\ resp' = Raised("avatar", "delete_avatar", t, u, "not_authorized")
            /\ UNCHANGED <<av_tasks, av_blobs>>
       ELSE IF AvHasBlob(t) /\ (~blobOk \/ t \notin av_blobs)
       THEN /\ resp' = Raised("avatar", "delete_avatar", t, u, "deletion_failed")
            /\ av_tasks' = Without(av_tasks, t)
            /\ UNCHANGED av_blobs
       ELSE /\ av_blobs' = IF AvHasBlob(t) THEN av_blobs \ {t} ELSE av_blobs
            /\ av_tasks' = Without(av_tasks, t)
            /\ resp' = Returned("avatar", "delete_avatar", t, u)
    /\ UNCHANGED <<av_pc, to_vars, match_vars>>

\* delete_avatar; blobOk is the outcome of blob_client.delete_blob()
delete_avatar(t, u, blobOk) ==
    /\ IF t \notin AvActive
       THEN /\ resp' = Raised("avatar", "delete_avatar", t, u, "not_found")
            /\ UNCHANGED <<av_tasks, av_blobs>>
       ELSE IF av_tasks[t].user_id # u
       THEN /\ resp' = Raised("avatar", "delete_avatar", t, u, "not_authorized")
            /\ UNCHANGED <<av_tasks, av_blobs>>
       ELSE IF AvHasBlob(t) /\ (~blobOk \/ t \notin av_blobs)
       THEN /\ resp' = Raised("avatar", "delete_avatar", t, u, "deletion_failed")
            /\ UNCHANGED <<av_tasks, av_blobs>>
       ELSE /\ av_blobs' = IF AvHasBlob(t) THEN av_blobs \ {t} ELSE av_blobs
            /\ av_tasks' = Without(av_tasks, t)
            /\ resp' = Returned("avatar", "delete_avatar", t, u)
    /\ UNCHANGED <<av_pc, to_vars, match_vars>>

\* sorted(..., key=created_at, reverse=True): created_at grows with the id
RECURSIVE NewestFirst(_)
NewestFirst(ids) ==
    IF ids = {}
    THEN << >>
    ELSE LET newest == CHOOSE t \in ids : \A x \in ids : x <= t
         IN  <<newest>> \o NewestFirst(ids \ {newest})

\* the test of list_user_avatars without the comparison of the owner
UserAvatars_AnyOwner(tasks, u) ==
    {t \in DOMAIN tasks : tasks[t].status = "completed"}

\* the tasks list_user_avatars appends to user_avatars
UserAvatars(tasks, u) ==
    {t \in DOMAIN tasks : tasks[t].user_id = u /\ tasks[t].status = "completed"}

\* list_user_avatars: the ids of the entries it returns, in their order
list_user_avatars(u) ==
    /\ resp' = [Returned("avatar", "list_user_avatars", 0, u) EXCEPT
                   !.listed = NewestFirst(UserAvatars(av_tasks, u))]
    /\ UNCHANGED <<av_vars, to_vars, match_vars>>

\* cleanup_old_tasks: created_at grows with the id, so the tasks older than the
\* cutoff are those with an id up to some k
avatar_cleanup_old_tasks(k) ==
    /\ av_tasks' = [t \in {x \in AvActive : av_tasks[x].created_at > k} |-> av_tasks[t]]
    /\ resp' = NoResp
    /\ UNCHANGED <<av_pc, av_blobs, to_vars, match_vars>>

\* ---------------------------------------------------------------- try-on service
\* progress checkpoints of _process_try_on
ToProgressBegin == 10
ToProgressAvatar == 20
ToProgressProduct == 30
ToProgressImage == 40
ToProgressRendered == 80
ToProgressDone == 100

ToCreated == DOMAIN to_pc
ToActive == DOMAIN to_tasks

\* app.models.tryon.TryOnTask: the fields start_try_on does not pass take the
\* initial values of the task state machine (progress 0, no result, no error)
TryOnTask(t, u, status) ==
    [id |-> t, user_id |-> u, status |-> status, progress |-> 0,
     result_url |-> None, error |-> None]

\* task.updated_at = datetime.utcnow(): the most recently updated entry
Touch(order, t) == SelectSeq(order, LAMBDA x : x # t) \o <<t>>

start_try_on(u) ==
    /\ Cardinality(ToCreated) < MaxTryOnTasks
    /\ LET t == Cardinality(ToCreated) + 1 IN
        /\ to_tasks' = to_tasks @@ (t :> TryOnTask(t, u, "processing"))
        /\ processing_queue' = Append(processing_queue, t)
        /\ to_pc' = to_pc @@ (t :> "start")
        /\ to_order' = Touch(to_order, t)
        /\ resp' = Returned("tryon", "start_try_on", t, u)
    /\ UNCHANGED <<to_blobs, to_rows, av_vars, match_vars>>

\* task.progress = p through the worker's local reference
ToSetProgress(tasks, t, p) ==
    IF t \in DOMAIN tasks THEN [tasks EXCEPT ![t].progress = p] ELSE tasks

\* the except branch of _process_try_on
ToFail(t, tasks, msg) ==
    /\ to_pc' = [to_pc EXCEPT ![t] = "done"]
    /\ IF t \in DOMAIN tasks
       THEN /\ to_tasks' = [tasks EXCEPT ![t].status = "failed", ![t].error = <<msg>>]
            /\ to_order' = Touch(to_order, t)
       ELSE /\ to_tasks' = tasks
            /\ to_order' = to_order

\* progress 40 and the entry of _perform_virtual_tryon up to its await.
\* settings_ml: whether the settings mapping given to start_try_on has an
\* attribute AZURE_ML_ENDPOINT (the parameter shadows app.core.config.settings;
\* a plain dict has no such attribute)
ToToRender(t, tasks, settings_ml) ==
    LET t1 == ToSetProgress(tasks, t, ToProgressImage) IN
    IF settings_ml
    THEN /\ to_tasks' = t1
         /\ to_pc' = [to_pc EXCEPT ![t] = "render"]
         /\ to_order' = to_order
    ELSE ToFail(t, t1, "object has no attribute AZURE_ML_ENDPOINT")

\* _process_try_on from its first line to the await inside _get_avatar_data
TryOnBegin(t) ==
    /\ t \in ToCreated /\ to_pc[t] = "start"
    /\ IF t \notin ToActive
       THEN ToFail(t, to_tasks, "KeyError")
       ELSE /\ to_tasks' = ToSetProgress(to_tasks, t, ToProgressBegin)
            /\ to_order' = Touch(to_order, t)
            /\ to_pc' = [to_pc EXCEPT ![t] = "avatar_data"]
    /\ resp' = NoResp
    /\ UNCHANGED <<to_blobs, to_rows, processing_queue, av_vars, match_vars>>

\* _get_avatar_data returns a row, or None (no row, or the query raised)
TryOnAvatarDataReturn(t, found) ==
    /\ t \in ToCreated /\ to_pc[t] = "avatar_data"
    /\ IF found
       THEN /\ to_tasks' = ToSetProgress(to_tasks, t, ToProgressAvatar)
            /\ to_pc' = [to_pc EXCEPT ![t] = "product_data"]
            /\ to_order' = to_order
       ELSE ToFail(t, to_tasks, "Avatar not found")
    /\ resp' = NoResp
    /\ UNCHANGED <<to_blobs, to_rows, processing_queue, av_vars, match_vars>>

\* _get_product_data returns a row (with or without an image_url), or None;
\* product_url is task.product_url
TryOnProductDataReturn(t, found, has_image, product_url, settings_ml) ==
    /\ t \in ToCreated /\ to_pc[t] = "product_data"
    /\ IF ~found
       THEN ToFail(t, to_tasks, "Product not found")
       ELSE LET t1 == ToSetProgress(to_tasks, t, ToProgressProduct) IN
            IF product_url /\ ~has_image
            THEN /\ to_tasks' = t1
                 /\ to_pc' = [to_pc EXCEPT ![t] = "download"]
                 /\ to_order' = to_order
            ELSE ToToRender(t, t1, settings_ml)
    /\ resp' = NoResp
    /\ UNCHANGED <<to_blobs, to_rows, processing_queue, av_vars, match_vars>>

\* _download_product_image returns the blob url or raises
TryOnDownloadReturn(t, ok, settings_ml) ==
    /\ t \in ToCreated /\ to_pc[t] = "download"
    /\ IF ok
       THEN ToToRender(t, to_tasks, settings_ml)
       ELSE ToFail(t, to_tasks, "Failed to download image")
    /\ resp' = NoResp
    /\ UNCHANGED <<to_blobs, to_rows, processing_queue, av_vars, match_vars>>

\* the model endpoint answers 200, or the call raises
TryOnRenderReturn(t, ok) ==
    /\ t \in ToCreated /\ to_pc[t] = "render"
    /\ IF ok
       THEN /\ to_tasks' = ToSetProgress(to_tasks, t, ToProgressRendered)
            /\ to_pc' = [to_pc EXCEPT ![t] = "upload"]
            /\ to_order' = to_order
       ELSE ToFail(t, to_tasks, "ML model failed")
    /\ resp' = NoResp
    /\ UNCHANGED <<to_blobs, to_rows, processing_queue, av_vars, match_vars>>

\* lines 165-168: the task is marked completed before the database save
ToComplete(tasks, t) ==
    IF t \in DOMAIN tasks
    THEN [tasks EXCEPT ![t].progress = ToProgressDone, ![t].status = "completed",
                       ![t].result_url = <<"tryon-results", t>>]
    ELSE tasks

\* _upload_tryon_result returns the blob url or raises
TryOnUploadReturn(t, ok) ==
    /\ t \in ToCreated /\ to_pc[t] = "upload"
    /\ IF ok
       THEN /\ to_blobs' = to_blobs \cup {t}
            /\ to_tasks' = ToComplete(to_tasks, t)
            /\ to_order' = IF t \in ToActive THEN Touch(to_order, t) ELSE to_order
            /\ to_pc' = [to_pc EXCEPT ![t] = "save"]
       ELSE /\ to_blobs' = to_blobs
            /\ ToFail(t, to_tasks, "upload failed")
    /\ resp' = NoResp
    /\ UNCHANGED <<to_rows, processing_queue, av_vars, match_vars>>

\* _save_tryon_result: db.execute inserts the row or raises; after the insert
\* the task is removed from active_tasks
TryOnSaveReturn(t, ok) ==
    /\ t \in ToCreated /\ to_pc[t] = "save"
    /\ IF ok
       THEN /\ to_rows' = to_rows \cup {t}
            /\ to_tasks' = Without(to_tasks, t)
            /\ to_order' = SelectSeq(to_order, LAMBDA x : x # t)
            /\ to_pc' = [to_pc EXCEPT ![t] = "done"]
       ELSE /\ ToFail(t, to_tasks, "database error")
            /\ UNCHANGED to_rows
    /\ resp' = NoResp
    /\ UNCHANGED <<to_blobs, processing_queue, av_vars, match_vars>>

\* the snapshot dict get_status returns
ToSnapshot(t, u) ==
    [Returned("tryon", "get_status", t, u) EXCEPT
        !.status = to_tasks[t].status, !.progress = to_tasks[t].progress,
        !.result = to_tasks[t].result_url, !.error = to_tasks[t].error]

ToGetStatus(t, u) ==
    IF t \notin ToActive
    THEN Raised("tryon", "get_status", t, u, "not_found")
    ELSE IF to_tasks[t].user_id # u
    THEN Raised("tryon", "get_status", t, u, "not_authorized")
    ELSE ToSnapshot(t, u)

tryon_get_status(t, u) ==
    /\ resp' = ToGetStatus(t, u)
    /\ UNCHANGED <<av_vars, to_vars, match_vars>>

\* cleanup_old_tasks: removes the entries whose updated_at is before the cutoff,
\* that is the k least recently updated ones
tryon_cleanup_old_tasks(k) ==
    /\ k \in 1..Len(to_order)
    /\ to_tasks' = [t \in ToActive \ {to_order[i] : i \in 1..k} |-> to_tasks[t]]
    /\ to_order' = SubSeq(to_order, k + 1, Len(to_order))
    /\ resp' = NoResp
    /\ UNCHANGED <<to_pc, to_blobs, to_rows, processing_queue, av_vars, match_vars>>

\* ---------------------------------------------------------------- endpoints
\* The body of an endpoint is one try block whose `except Exception` clause
\* raises HTTPException(500) for whatever was raised inside it; HTTPException
\* is an Exception, so the one raised by the ownership test is replaced too.
EndpointExcept(status_code) == 500

\* http_exception_handler: the response carries the exception's status code
http_exception_handler(status_code) == status_code

\* the response to a request whose try block raised `what` with status_code
HttpError(svc, op, u, what, status_code) ==
    [Raised(svc, op, 0, u, what) EXCEPT
        !.http_status = http_exception_handler(EndpointExcept(status_code))]

\* POST /api/v1/avatars/generate; request_user is request.user_id and
\* current_user is current_user["id"]
generate_avatar(request_user, current_user) ==
    IF request_user # current_user
    THEN /\ resp' = HttpError("avatar", "generate_avatar", current_user,
                              "not_authorized", 403)
         /\ UNCHANGED <<av_vars, to_vars, match_vars>>
    ELSE /\ Cardinality(AvCreated) < MaxAvatarTasks
         /\ LET t == Cardinality(AvCreated) + 1 IN
             /\ av_tasks' = av_tasks @@ (t :> AvNewTask(t, request_user))
             /\ av_pc' = av_pc @@ (t :> "start")
             /\ resp' = [Returned("avatar", "generate_avatar", t, current_user)
                             EXCEPT !.status = "processing", !.http_status = 200]
         /\ UNCHANGED <<av_blobs, to_vars, match_vars>>

\* POST /api/v1/virtual-tryon
virtual_try_on(request_user, current_user) ==
    IF request_user # current_user
    THEN /\ resp' = HttpError("tryon", "virtual_try_on", current_user,
                              "not_authorized", 403)
         /\ UNCHANGED <<av_vars, to_vars, match_vars>>
    ELSE /\ Cardinality(ToCreated) < MaxTryOnTasks
         /\ LET t == Cardinality(ToCreated) + 1 IN
             /\ to_tasks' = to_tasks @@ (t :> TryOnTask(t, request_user, "processing"))
             /\ processing_queue' = Append(processing_queue, t)
             /\ to_pc' = to_pc @@ (t :> "start")
             /\ to_order' = Touch(to_order, t)
             /\ resp' = [Returned("tryon", "virtual_try_on", t, current_user)
                             EXCEPT !.status = "processing", !.http_status = 200]
         /\ UNCHANGED <<to_blobs, to_rows, av_vars, match_vars>>

\* ---------------------------------------------------------------- product matching service
\* A find_matches call reads no state of the service (its cache key is a fresh
\* uuid4 and matching_cache is never read), so a behaviour follows one call.
\* A text is the sequence of its tokens, each a word or a run of whitespace
\* (" "); the empty sequence is "" or an absent text, which the scorer treats
\* alike.  A price is None or <<amount>>.

\* keys of self.platform_adapters
platform_adapters == {"amazon", "ebay", "walmart", "target", "bestbuy", "newegg"}

\* platform ids a request may name: two with an adapter, one without
TargetIds == {"amazon", "ebay", "etsy"}

MaxTargets == 2

TargetLists == UNION {[1..n -> TargetIds] : n \in 0..MaxTargets}

\* source urls: an Amazon product page, an Amazon page without /dp/<ASIN>,
\* and a page of a shop no platform extractor claims
SourceUrls ==
    {[domain |-> "amazon", has_id |-> TRUE],
     [domain |-> "amazon", has_id |-> FALSE],
     [domain |-> "shop", has_id |-> TRUE]}

\* what the details lookup (or, for a generic page, the HTTP fetch) answers
Details(name, brand, category, price) ==
    [raised |-> FALSE, name |-> name, brand |-> brand, category |-> category,
     price |-> price, description |-> << >>]

DetailsRaised == [Details(<< >>, << >>, << >>, None) EXCEPT !.raised = TRUE]

Fetches ==
    {DetailsRaised,
     Details(<< >>, << >>, << >>, None),
     Details(<<"Red", " ", "Shoe">>, <<"Nike">>, <<"shoes">>, <<100>>)}

\* products an adapter's search may list
Hit(id, name, brand, category, price) ==
    [id |-> id, name |-> name, brand |-> brand, category |-> category,
     price |-> price, description |-> << >>]

HitExact == Hit("exact", <<"red", "shoe">>, <<"nike">>, <<"shoes">>, <<100>>)
HitName == Hit("name", <<"RED", "shoe">>, << >>, << >>, None)
HitTie == Hit("tie", <<"shoe", "red">>, << >>, << >>, None)
HitPrice == Hit("price", <<"red", "shoe">>, <<"nike">>, << >>, <<150>>)
HitLow == Hit("low", <<"red", "boot">>, << >>, << >>, <<100>>)
HitEdge == Hit("edge", <<"blue", "boot">>, << >>, <<"Shoes">>, <<100>>)

\* what adapter.search_products answers
Searched(hits) == [raised |-> FALSE, hits |-> hits]
SearchRaised == [raised |-> TRUE, hits |-> << >>]

SearchOutcomes ==
    {SearchRaised,
     Searched(<< >>),
     Searched(<<HitName, HitLow>>),
     Searched(<<HitTie, HitExact>>),
     Searched(<<HitEdge, HitPrice>>)}

\* str.lower() on the words in use
Lower(w) ==
    CASE w = "Red" -> "red"
      [] w = "RED" -> "red"
      [] w = "Shoe" -> "shoe"
      [] w = "Shoes" -> "shoes"
      [] w = "Nike" -> "nike"
      [] OTHER -> w

\* set(text.lower().split())
WordSet(text) == {Lower(text[i]) : i \in {j \in DOMAIN text : text[j] # " "}}

\* truth value of product.get("price"): neither None nor 0
HasPrice(product) == product.price # None /\ product.price[1] # 0

\* a / b for a >= 0 and b # 0 dividing a
Quotient(a, b) == IF b > 0 THEN a \div b ELSE -(a \div (-b))

\* Similarities are counted in units of 1/SimUnit and scores in units of
\* 1/(100 * SimUnit); every quotient taken below is exact for the products
\* above.  The one score at the threshold, HitEdge's 0.15 + 0.15, is 0.3 in
\* float arithmetic as well.
SimUnit == 60
WeightName == 40
WeightBrand == 20
WeightCategory == 15
WeightPrice == 15
WeightDescription == 10
MinRelevance == 30

Abs(x) == IF x < 0 THEN -x ELSE x
Max(a, b) == IF a >= b THEN a ELSE b
\* `return score` in place of `return min(1.0, score)`
Min_Unclamped(a, b) == b

Min(a, b) == IF a <= b THEN a ELSE b

\* _calculate_text_similarity: Jaccard similarity of the two word sets
_calculate_text_similarity(text1, text2) ==
    LET words1 == WordSet(text1)
        words2 == WordSet(text2)
    IN  IF words1 = {} \/ words2 = {}
        THEN 0
        ELSE (Cardinality(words1 \cap words2) * SimUnit)
                 \div Cardinality(words1 \cup words2)

\* _calculate_relevance_score
_calculate_relevance_score(source_product, target_product) ==
    LET name_part ==
            _calculate_text_similarity(source_product.name, target_product.name)
                * WeightName
        brand_part ==
            IF source_product.brand # << >> /\ target_product.brand # << >>
            THEN _calculate_text_similarity(source_product.brand, target_product.brand)
                     * WeightBrand
            ELSE 0
        category_part ==
            IF source_product.category # << >> /\ target_product.category # << >>
            THEN _calculate_text_similarity(source_product.category,
                                            target_product.category) * WeightCategory
            ELSE 0
        price_part ==
            IF HasPrice(source_product) /\ HasPrice(target_product)
            THEN LET price_diff ==
                         Abs(source_product.price[1] - target_product.price[1])
                 IN  Max(0, SimUnit - Quotient(price_diff * SimUnit,
                                               source_product.price[1]))
                         * WeightPrice
            ELSE 0
        desc_part ==
            IF source_product.description # << >> /\ target_product.description # << >>
            THEN _calculate_text_similarity(source_product.description,
                                            target_product.description)
                     * WeightDescription
            ELSE 0
    IN  Min(100 * SimUnit,
            name_part + brand_part + category_part + price_part + desc_part)

\* the scoring loop keeping the results that score at least the threshold
RECURSIVE ScoredMatches_AtLeast(_, _, _)
ScoredMatches_AtLeast(source_product, platform, search_results) ==
    IF search_results = << >>
    THEN << >>
    ELSE LET result == Head(search_results)
             relevance_score == _calculate_relevance_score(source_product, result)
             rest == ScoredMatches_AtLeast(source_product, platform,
                                           Tail(search_results))
         IN  IF relevance_score >= MinRelevance * SimUnit
             THEN <<[product |-> result, relevance_score |-> relevance_score,
                     platform |-> platform]>> \o rest
             ELSE rest

\* the scoring loop of _find_platform_matches over a search result
RECURSIVE ScoredMatches(_, _, _)
ScoredMatches(source_product, platform, search_results) ==
    IF search_results = << >>
    THEN << >>
    ELSE LET result == Head(search_results)
             relevance_score == _calculate_relevance_score(source_product, result)
             rest == ScoredMatches(source_product, platform, Tail(search_results))
         IN  IF relevance_score > MinRelevance * SimUnit
             THEN <<[product |-> result, relevance_score |-> relevance_score,
                     platform |-> platform]>> \o rest
             ELSE rest

\* _find_platform_matches whose except branch hands the error on
_find_platform_matches_Propagate(source_product, platform, outcome) ==
    IF platform \notin platform_adapters
    THEN [raised |-> FALSE, matches |-> << >>]
    ELSE [raised |-> outcome.raised,
          matches |-> ScoredMatches(source_product, platform, outcome.hits)]

\* _find_platform_matches; outcome is the answer of adapter.search_products.
\* raised tells whether the call ends with an exception: it never does.
_find_platform_matches(source_product, platform, outcome) ==
    IF platform \notin platform_adapters
    THEN [raised |-> FALSE, matches |-> << >>]
    ELSE IF outcome.raised
    THEN [raised |-> FALSE, matches |-> << >>]
    ELSE [raised |-> FALSE,
          matches |-> ScoredMatches(source_product, platform, outcome.hits)]

\* an insertion that puts a match in front of the matches of equal score
InsertMatch_BeforeEqual(sorted, m) ==
    LET k == Cardinality({i \in DOMAIN sorted :
                              sorted[i].relevance_score > m.relevance_score})
    IN  SubSeq(sorted, 1, k) \o <<m>> \o SubSeq(sorted, k + 1, Len(sorted))

\* list.sort(key=relevance_score, reverse=True): stable, descending
InsertMatch(sorted, m) ==
    LET k == Cardinality({i \in DOMAIN sorted :
                              sorted[i].relevance_score >= m.relevance_score})
    IN  SubSeq(sorted, 1, k) \o <<m>> \o SubSeq(sorted, k + 1, Len(sorted))

RECURSIVE SortMatches(_)
SortMatches(matches) ==
    IF matches = << >>
    THEN << >>
    ELSE InsertMatch(SortMatches(SubSeq(matches, 1, Len(matches) - 1)),
                     matches[Len(matches)])

\* the dict a platform extractor or the generic extractor builds
SourceProduct(platform, url, fetched) ==
    [platform |-> platform, url |-> url, name |-> fetched.name,
     brand |-> fetched.brand, category |-> fetched.category,
     price |-> fetched.price, description |-> fetched.description]

ExtractRaised == [raised |-> TRUE, product |-> None]

\* _extract_amazon_product (the other platform extractors have its shape)
_extract_amazon_product(url, fetched) ==
    IF ~url.has_id \/ fetched.raised
    THEN ExtractRaised
    ELSE [raised |-> FALSE, product |-> <<SourceProduct("amazon", url, fetched)>>]

\* _extract_generic_product: title and price of the page, the rest empty
_extract_generic_product(url, fetched) ==
    IF fetched.raised
    THEN ExtractRaised
    ELSE [raised |-> FALSE,
          product |-> <<SourceProduct("generic", url,
                                      Details(fetched.name, << >>, << >>,
                                              fetched.price))>>]

\* the extractor _extract_product_info dispatches to
PlatformExtract(url, fetched) ==
    IF url.domain = "amazon"
    THEN _extract_amazon_product(url, fetched)
    ELSE _extract_generic_product(url, fetched)

\* _extract_product_info answering an empty product when the extractor raises
_extract_product_info_Default(url, fetched) ==
    LET r == PlatformExtract(url, fetched)
    IN  IF r.raised
        THEN <<SourceProduct("generic", url, Details(<< >>, << >>, << >>, None))>>
        ELSE r.product

\* _extract_product_info: None when the extractor raises
_extract_product_info(url, fetched) ==
    LET r == PlatformExtract(url, fetched)
    IN  IF r.raised THEN None ELSE r.product

NoMatchResp == [outcome |-> "none", error |-> "none", matches |-> << >>]

IdleFrame ==
    [pc |-> "idle", match_id |-> 0, source_url |-> None, target_platforms |-> << >>,
     fetched |-> None, source_product |-> None, idx |-> 0, matches |-> << >>]

\* MatchResult(...)
MatchResult(frame, matches) ==
    [id |-> frame.match_id, source_url |-> frame.source_url,
     source_product |-> frame.source_product, matches |-> matches,
     target_platforms |-> frame.target_platforms]

\* the platform loop without its test `platform in self.platform_adapters`
NextAdapter_NoSkip(target_platforms, i) ==
    IF i > Len(target_platforms) THEN 0 ELSE i

\* first position from i on whose platform has an adapter, 0 if there is none
RECURSIVE NextAdapter(_, _)
NextAdapter(target_platforms, i) ==
    IF i > Len(target_platforms)
    THEN 0
    ELSE IF target_platforms[i] \in platform_adapters
    THEN i
    ELSE NextAdapter(target_platforms, i + 1)

\* the except branch of find_matches: log and re-raise
FindMatchesRaise(frame, error) ==
    /\ fm' = [frame EXCEPT !.pc = "idle"]
    /\ pm_resp' = [outcome |-> "raised", error |-> error, matches |-> << >>]
    /\ UNCHANGED <<matching_cache, pm_rows>>

\* find_matches from position i of the platform loop up to its next await:
\* the next search, or sort, MatchResult, cache write and the save
FindMatchesLoop(frame, i) ==
    LET j == NextAdapter(frame.target_platforms, i)
    IN  IF j # 0
        THEN /\ fm' = [frame EXCEPT !.pc = "search", !.idx = j]
             /\ UNCHANGED <<matching_cache, pm_rows, pm_resp>>
        ELSE LET sorted == SortMatches(frame.matches)
             IN  /\ fm' = [frame EXCEPT !.pc = "save", !.idx = 0, !.matches = sorted]
                 /\ matching_cache' =
                        [x \in DOMAIN matching_cache \cup {frame.match_id} |->
                            IF x = frame.match_id
                            THEN MatchResult(frame, sorted)
                            ELSE matching_cache[x]]
                 /\ UNCHANGED <<pm_rows, pm_resp>>

\* find_matches up to the await of _extract_product_info
find_matches(source_url, target_platforms) ==
    /\ fm.pc = "idle"
    /\ pm_calls = 0
    /\ pm_calls' = pm_calls + 1
    /\ fm' = [IdleFrame EXCEPT !.pc = "extract", !.match_id = pm_calls + 1,
                               !.source_url = <<source_url>>,
                               !.target_platforms = target_platforms]
    /\ adapter_calls' = << >>
    /\ pm_resp' = NoMatchResp
    /\ UNCHANGED <<matching_cache, pm_rows, tracker_vars, fn_vars, cp_vars>>

\* _extract_product_info returns; fetched is what the lookup behind it answered
FindMatchesExtractReturn(fetched) ==
    /\ fm.pc = "extract"
    /\ LET source_product == _extract_product_info(fm.source_url[1], fetched)
           frame == [fm EXCEPT !.fetched = <<fetched>>,
                               !.source_product = source_product]
       IN  IF source_product = None
           THEN FindMatchesRaise(frame, "ValueError")
           ELSE FindMatchesLoop(frame, 1)
    /\ UNCHANGED <<pm_calls, adapter_calls, tracker_vars, fn_vars, cp_vars>>

\* _find_platform_matches returns; outcome is what the adapter answered
FindMatchesSearchReturn(outcome) ==
    /\ fm.pc = "search"
    /\ LET platform == fm.target_platforms[fm.idx]
           platform_matches ==
               _find_platform_matches(fm.source_product[1], platform, outcome)
       IN  /\ adapter_calls' =
                  Append(adapter_calls, [platform |-> platform, outcome |-> outcome])
           /\ IF platform_matches.raised
              THEN FindMatchesRaise(fm, "search")
              ELSE FindMatchesLoop(
                       [fm EXCEPT !.matches = @ \o platform_matches.matches],
                       fm.idx + 1)
    /\ UNCHANGED <<pm_calls, tracker_vars, fn_vars, cp_vars>>

\* _save_match_result returns; ok is the outcome of db.execute
FindMatchesSaveReturn(ok) ==
    /\ fm.pc = "save"
    /\ IF ok
       THEN /\ pm_rows' = pm_rows \cup {fm.match_id}
            /\ fm' = [fm EXCEPT !.pc = "idle"]
            /\ pm_resp' = [outcome |-> "returned", error |-> "none",
                           matches |-> fm.matches]
            /\ UNCHANGED matching_cache
       ELSE FindMatchesRaise(fm, "save")
    /\ UNCHANGED <<pm_calls, adapter_calls, tracker_vars, fn_vars, cp_vars>>

\* ---------------------------------------------------------------- scoring functions
\* texts and product records the two scoring functions are applied to
ScoreTexts ==
    {<< >>, <<" ">>, <<"Red", " ", "Shoe">>, <<"shoe", "red">>, <<"red", "boot">>,
     <<"Nike">>}

ScoreProducts ==
    [name : {<< >>, <<" ">>, <<"Red", " ", "Shoe">>, <<"red", "boot">>},
     brand : {<< >>, <<"Nike">>},
     category : {<< >>, <<"shoes">>},
     price : {None, <<0>>, <<-100>>, <<50>>, <<100>>},
     description : {<< >>, <<"red", "shoe">>}]

\* The functions are pure: a behaviour applies one of them once.
NoCall == [fn |-> "none", a |-> None, b |-> None]

\* a call of _calculate_text_similarity
ApplyTextSimilarity(text1, text2) ==
    /\ fn_call = NoCall
    /\ fn_call' = [fn |-> "text_similarity", a |-> text1, b |-> text2]
    /\ fn_result' = _calculate_text_similarity(text1, text2)
    /\ UNCHANGED <<tracker_vars, pm_vars, cp_vars>>

\* a call of _calculate_relevance_score
ApplyRelevanceScore(source_product, target_product) ==
    /\ fn_call = NoCall
    /\ fn_call' = [fn |-> "relevance_score", a |-> source_product, b |-> target_product]
    /\ fn_result' = _calculate_relevance_score(source_product, target_product)
    /\ UNCHANGED <<tracker_vars, pm_vars, cp_vars>>

\* ---------------------------------------------------------------- price comparison
\* compare_prices writes no state of the service, so a behaviour follows one
\* call, and the adapters' answers are drawn together when the product lookup
\* returns.  A dict is the sequence of its items in insertion order.

ProductIds == {"p1", "p2"}

\* platforms argument: None, or a list of platform ids
PlatformArgs == {None} \cup {<<targets>> : targets \in TargetLists}

\* list(self.platform_adapters.keys())
AdapterOrder == <<"amazon", "ebay", "walmart", "target", "bestbuy", "newegg">>

\* what db.fetchrow answers in _get_product_by_id
ProductRow(found, price) ==
    [raised |-> FALSE, found |-> found, name |-> <<"Red", " ", "Shoe">>,
     price |-> price, platform |-> "amazon"]

ProductRows ==
    {[ProductRow(FALSE, None) EXCEPT !.raised = TRUE],
     ProductRow(FALSE, None),
     ProductRow(TRUE, None),
     ProductRow(TRUE, <<100>>)}

\* what adapter.get_product_price answers
PriceAnswers ==
    {[raised |-> TRUE, price_info |-> None],
     [raised |-> FALSE, price_info |-> None],
     [raised |-> FALSE, price_info |-> <<[price |-> None]>>],
     [raised |-> FALSE, price_info |-> <<[price |-> <<0>>]>>],
     [raised |-> FALSE, price_info |-> <<[price |-> <<15>>]>>],
     [raised |-> FALSE, price_info |-> <<[price |-> <<20>>]>>]}

\* _get_product_by_id: the dict built from the row, None without a row
_get_product_by_id(product_id, row) ==
    IF row.raised \/ ~row.found
    THEN None
    ELSE <<[id |-> product_id, name |-> row.name, description |-> << >>,
            price |-> row.price, image_url |-> << >>, category |-> << >>,
            brand |-> << >>, platform |-> row.platform]>>

\* _get_platform_price; answer is what adapter.get_product_price would answer.
\* product["product_id"] raises KeyError for a dict without that key, before
\* the adapter is called, and the except branch returns None.
_get_platform_price(product, platform, answer) ==
    IF platform \notin platform_adapters
    THEN [called |-> FALSE, price_info |-> None]
    ELSE IF "product_id" \notin DOMAIN product
    THEN [called |-> FALSE, price_info |-> None]
    ELSE [called |-> TRUE,
          price_info |-> IF answer.raised THEN None ELSE answer.price_info]

\* d[key] = value on a dict
DictSet(d, key, value) ==
    IF \E i \in DOMAIN d : d[i].key = key
    THEN [i \in DOMAIN d |-> IF d[i].key = key THEN [key |-> key, value |-> value]
                                               ELSE d[i]]
    ELSE Append(d, [key |-> key, value |-> value])

\* the platform loop of compare_prices from position i on
RECURSIVE CollectPrices(_, _, _, _, _)
CollectPrices(product, target_platforms, answers, i, acc) ==
    IF i > Len(target_platforms)
    THEN acc
    ELSE LET platform == target_platforms[i]
         IN  IF platform \notin platform_adapters
             THEN CollectPrices(product, target_platforms, answers, i + 1, acc)
             ELSE LET got == _get_platform_price(product, platform, answers[platform])
                      calls == IF got.called
                               THEN Append(acc.calls,
                                           [platform |-> platform,
                                            product_id |-> product.product_id,
                                            answer |-> answers[platform]])
                               ELSE acc.calls
                      comparison == IF got.price_info # None
                                    THEN DictSet(acc.price_comparison, platform,
                                                 got.price_info[1])
                                    ELSE acc.price_comparison
                  IN  CollectPrices(product, target_platforms, answers, i + 1,
                                    [price_comparison |-> comparison, calls |-> calls])

\* truth value of info["price"]
Counted(item) == item.value.price # None /\ item.value.price[1] # 0

\* [info["price"] for info in price_comparison.values() if info["price"]]
PriceList(price_comparison) ==
    LET counted == SelectSeq(price_comparison, Counted)
    IN  [i \in DOMAIN counted |-> counted[i].value.price[1]]

SeqMin(prices) == CHOOSE x \in {prices[i] : i \in DOMAIN prices} :
                      \A i \in DOMAIN prices : x <= prices[i]
SeqMax(prices) == CHOOSE x \in {prices[i] : i \in DOMAIN prices} :
                      \A i \in DOMAIN prices : x >= prices[i]

RECURSIVE SeqSum(_)
SeqSum(prices) == IF prices = << >> THEN 0 ELSE Head(prices) + SeqSum(Tail(prices))

\* round(sum(prices) / len(prices), 2), in hundredths; no mean of the prices
\* in use lies halfway between two hundredths
RoundedMean(prices) == (2 * 100 * SeqSum(prices) + Len(prices)) \div (2 * Len(prices))

\* best_deals without the test `if prices`, against a minimum of 0
BestDeals_NoGuard(price_comparison, prices) ==
    LET min_price == IF prices # << >> THEN SeqMin(prices) ELSE 0
        best == SelectSeq(price_comparison,
                          LAMBDA item : item.value.price = <<min_price>>)
    IN  [i \in DOMAIN best |-> best[i].key]

\* best_deals: the platforms whose price equals min_price, [] without prices
BestDeals(price_comparison, prices) ==
    IF prices # << >>
    THEN LET best == SelectSeq(price_comparison,
                               LAMBDA item : item.value.price = <<SeqMin(prices)>>)
         IN  [i \in DOMAIN best |-> best[i].key]
    ELSE << >>

\* the "statistics" dict of compare_prices; avg_price in hundredths
Statistics(price_comparison) ==
    LET prices == PriceList(price_comparison)
    IN  [min_price |-> IF prices # << >> THEN SeqMin(prices) ELSE 0,
         max_price |-> IF prices # << >> THEN SeqMax(prices) ELSE 0,
         avg_price |-> IF prices # << >> THEN RoundedMean(prices) ELSE 0,
         price_range |-> IF prices # << >> THEN SeqMax(prices) - SeqMin(prices) ELSE 0,
         best_deals |-> BestDeals(price_comparison, prices)]

IdleCompare == [pc |-> "idle", product_id |-> None, platforms |-> None]

NoPriceResp ==
    [outcome |-> "none", product |-> None, price_comparison |-> << >>,
     statistics |-> None]

\* compare_prices up to the await of _get_product_by_id
compare_prices(product_id, platforms) ==
    /\ cp.pc = "idle"
    /\ cp_resp = NoPriceResp
    /\ cp' = [pc |-> "lookup", product_id |-> <<product_id>>, platforms |-> platforms]
    /\ UNCHANGED <<price_calls, cp_resp, tracker_vars, pm_vars, fn_vars>>

\* _get_product_by_id returns; row is the answer of the database, answers
\* what each adapter would answer to get_product_price
ComparePricesLookupReturn(row, answers) ==
    /\ cp.pc = "lookup"
    /\ cp' = [cp EXCEPT !.pc = "idle"]
    /\ LET product == _get_product_by_id(cp.product_id[1], row)
           target_platforms ==
               IF cp.platforms = None \/ cp.platforms = << << >> >>
               THEN AdapterOrder
               ELSE cp.platforms[1]
       IN  IF product = None
           THEN /\ cp_resp' = [NoPriceResp EXCEPT !.outcome = "raised"]
                /\ UNCHANGED price_calls
           ELSE LET got == CollectPrices(product[1], target_platforms, answers, 1,
                                         [price_comparison |-> << >>,
                                          calls |-> << >>])
                IN  /\ price_calls' = got.calls
                    /\ cp_resp' = [outcome |-> "returned", product |-> product,
                                   price_comparison |-> got.price_comparison,
                                   statistics |->
                                       <<Statistics(got.price_comparison)>>]
    /\ UNCHANGED <<tracker_vars, pm_vars, fn_vars>>

\* dicts the statistics are computed from: at most one item for each of three
\* platforms, in a fixed insertion order
ItemChoices(platform) ==
    {<< >>} \cup {<<[key |-> platform, value |-> [price |-> price]]>> :
                     price \in {None, <<0>>, <<15>>, <<20>>}}

PriceComparisons ==
    {a \o b \o c : a \in ItemChoices("amazon"), b \in ItemChoices("ebay"),
                   c \in ItemChoices("walmart")}

\* the statistics block of compare_prices on a price_comparison dict
ApplyStatistics(price_comparison) ==
    /\ fn_call = NoCall
    /\ fn_call' = [fn |-> "statistics", a |-> price_comparison, b |-> None]
    /\ fn_result' = Statistics(price_comparison)
    /\ UNCHANGED <<tracker_vars, pm_vars, cp_vars>>

\* ---------------------------------------------------------------- specification
Init ==
    /\ av_tasks = << >>
    /\ av_pc = << >>
    /\ av_blobs = {}
    /\ to_tasks = << >>
    /\ to_pc = << >>
    /\ to_blobs = {}
    /\ to_rows = {}
    /\ to_order = << >>
    /\ processing_queue = << >>
    /\ resp = NoResp
    /\ matching_cache = << >>
    /\ pm_rows = {}
    /\ pm_calls = 0
    /\ fm = IdleFrame
    /\ adapter_calls = << >>
    /\ pm_resp = NoMatchResp
    /\ fn_call = NoCall
    /\ fn_result = 0
    /\ cp = IdleCompare
    /\ price_calls = << >>
    /\ cp_resp = NoPriceResp

\* The two services are separate objects with no state in common, so a
\* behaviour creates tasks in one of them only.
AvatarStart == \E u \in Users : ToCreated = {} /\ start_generation(u)
TryOnStart == \E u \in Users : AvCreated = {} /\ start_try_on(u)

\* the next step of the _generate_avatar coroutine of task t
AvatarStep(t) ==
    \/ \E h \in Heights : AvatarBegin(t, h)
    \/ \E ok \in BOOLEAN, face \in BOOLEAN, body \in BOOLEAN :
            AvatarImageReturn(t, ok, face, body)
    \/ \E ok \in BOOLEAN, body \in BOOLEAN : AvatarFaceReturn(t, ok, body)
    \/ \E ok \in BOOLEAN : AvatarBodyReturn(t, ok)
    \/ \E ok \in BOOLEAN : AvatarUploadReturn(t, ok)

AvatarWorker == \E t \in AvatarIds : AvatarStep(t)

AvatarUser ==
    \/ \E t \in AvatarIds, u \in Users : avatar_get_status(t, u)
    \/ \E t \in AvatarIds, u \in Users, blobOk \in BOOLEAN : delete_avatar(t, u, blobOk)
    \/ \E k \in 1..MaxAvatarTasks : avatar_cleanup_old_tasks(k)
    \/ \E u \in Users : list_user_avatars(u)

\* the next step of the _process_try_on coroutine of task t
TryOnStep(t) ==
    \/ TryOnBegin(t)
    \/ \E found \in BOOLEAN : TryOnAvatarDataReturn(t, found)
    \/ \E found \in BOOLEAN, img \in BOOLEAN, url \in BOOLEAN, ml \in BOOLEAN :
            TryOnProductDataReturn(t, found, img, url, ml)
    \/ \E ok \in BOOLEAN, ml \in BOOLEAN : TryOnDownloadReturn(t, ok, ml)
    \/ \E ok \in BOOLEAN : TryOnRenderReturn(t, ok)
    \/ \E ok \in BOOLEAN : TryOnUploadReturn(t, ok)
    \/ \E ok \in BOOLEAN : TryOnSaveReturn(t, ok)

TryOnWorker == \E t \in TryOnIds : TryOnStep(t)

TryOnUser ==
    \/ \E t \in TryOnIds, u \in Users : tryon_get_status(t, u)
    \/ \E k \in 1..MaxTryOnTasks : tryon_cleanup_old_tasks(k)

Next ==
    \/ AvatarStart
    \/ AvatarWorker
    \/ AvatarUser
    \/ TryOnStart
    \/ TryOnWorker
    \/ TryOnUser

Spec == Init /\ [][Next]_vars

\* Every coroutine started with asyncio.create_task is resumed once the call
\* it awaits has returned or raised, and every such call does so.
Fairness ==
    /\ \A t \in AvatarIds : WF_vars(AvatarStep(t))
    /\ \A t \in TryOnIds : WF_vars(TryOnStep(t))

\* the calls that take tasks out of a tracker
AvatarRemove ==
    \/ \E t \in AvatarIds, u \in Users, blobOk \in BOOLEAN : delete_avatar(t, u, blobOk)
    \/ \E k \in 1..MaxAvatarTasks : avatar_cleanup_old_tasks(k)

TryOnRemove == \E k \in 1..MaxTryOnTasks : tryon_cleanup_old_tasks(k)

\* Next without the calls that only read a tracker (get_status,
\* list_user_avatars)
NextFair ==
    \/ AvatarStart
    \/ AvatarWorker
    \/ AvatarRemove
    \/ TryOnStart
    \/ TryOnWorker
    \/ TryOnRemove

SpecFair == Init /\ [][NextFair]_vars /\ Fairness

\* ---------------------------------------------------------------- specification: endpoints
ApiGenerateAvatar ==
    \E request_user \in Users, current_user \in Users :
        ToCreated = {} /\ generate_avatar(request_user, current_user)

ApiVirtualTryOn ==
    \E request_user \in Users, current_user \in Users :
        AvCreated = {} /\ virtual_try_on(request_user, current_user)

NextApi ==
    \/ ApiGenerateAvatar
    \/ ApiVirtualTryOn
    \/ AvatarWorker
    \/ TryOnWorker

SpecApi == Init /\ [][NextApi]_vars

\* ---------------------------------------------------------------- specification: matching
MatchCall == \E url \in SourceUrls, targets \in TargetLists : find_matches(url, targets)
MatchExtract == \E fetched \in Fetches : FindMatchesExtractReturn(fetched)
MatchSearch == \E outcome \in SearchOutcomes : FindMatchesSearchReturn(outcome)
MatchSave == \E ok \in BOOLEAN : FindMatchesSaveReturn(ok)

NextMatch ==
    \/ MatchCall
    \/ MatchExtract
    \/ MatchSearch
    \/ MatchSave

SpecMatch == Init /\ [][NextMatch]_vars

\* ---------------------------------------------------------------- specification: scoring
ScoreText ==
    /\ fn_call = NoCall
    /\ \E text1 \in ScoreTexts, text2 \in ScoreTexts : ApplyTextSimilarity(text1, text2)

ScoreProduct ==
    /\ fn_call = NoCall
    /\ \E source_product \in ScoreProducts, target_product \in ScoreProducts :
           ApplyRelevanceScore(source_product, target_product)

NextScore ==
    \/ ScoreText
    \/ ScoreProduct

SpecScore == Init /\ [][NextScore]_vars

\* ---------------------------------------------------------------- specification: price comparison
PriceCall ==
    \E product_id \in ProductIds, platforms \in PlatformArgs :
        compare_prices(product_id, platforms)

PriceLookup ==
    /\ cp.pc = "lookup"
    /\ \E row \in ProductRows, answer \in PriceAnswers :
           ComparePricesLookupReturn(row, [p \in platform_adapters |-> answer])

PriceStatistics ==
    /\ fn_call = NoCall
    /\ \E price_comparison \in PriceComparisons : ApplyStatistics(price_comparison)

NextPrices ==
    \/ PriceCall
    \/ PriceLookup
    \/ PriceStatistics

SpecPrices == Init /\ [][NextPrices]_vars

\* ---------------------------------------------------------------- claims: task trackers

C2_ProgressMonotone ==
    [][/\ \A t \in AvActive \cap DOMAIN av_tasks' :
            av_tasks[t].status = "processing"
                => av_tasks'[t].progress >= av_tasks[t].progress
       /\ \A t \in ToActive \cap DOMAIN to_tasks' :
            to_tasks[t].status = "processing"
                => to_tasks'[t].progress >= to_tasks[t].progress
       /\ (resp'.op = "get_status" /\ resp'.outcome = "ok" /\ resp'.svc = "avatar")
                => resp'.progress = av_tasks[resp'.task].progress
       /\ (resp'.op = "get_status" /\ resp'.outcome = "ok" /\ resp'.svc = "tryon")
                => resp'.progress = to_tasks[resp'.task].progress]_vars

\* an owner's poll that observed a processing avatar task past its second checkpoint
C2_Witness ==
    /\ resp.op = "get_status" /\ resp.outcome = "ok" /\ resp.svc = "avatar"
    /\ resp.status = "processing" /\ resp.progress > AvProgressBase

\* C3: the step in which start_generation or start_try_on creates a task leaves it
\* in the tracker with status processing, progress 0, no result, no error and the
\* caller's user id as owner, its worker not yet started.
C3_InitialTask ==
    [][/\ \A t \in DOMAIN av_pc' \ AvCreated :
            /\ t \in DOMAIN av_tasks' /\ av_pc'[t] = "start"
            /\ av_tasks'[t].status = "processing" /\ av_tasks'[t].progress = 0
            /\ av_tasks'[t].result = None /\ av_tasks'[t].error = None
            /\ resp'.op = "start_generation" /\ resp'.outcome = "ok" /\ resp'.task = t
            /\ av_tasks'[t].user_id = resp'.user
       /\ \A t \in DOMAIN to_pc' \ ToCreated :
            /\ t \in DOMAIN to_tasks' /\ to_pc'[t] = "start"
            /\ to_tasks'[t].status = "processing" /\ to_tasks'[t].progress = 0
            /\ to_tasks'[t].result_url = None /\ to_tasks'[t].error = None
            /\ resp'.op = "start_try_on" /\ resp'.outcome = "ok" /\ resp'.task = t
            /\ to_tasks'[t].user_id = resp'.user]_vars

\* start_generation has just returned and the worker has not run yet
C3_Witness ==
    /\ resp.op = "start_generation" /\ resp.outcome = "ok"
    /\ resp.task \in AvActive /\ av_pc[resp.task] = "start"

AvWorkerFailed(t) ==
    /\ av_pc[t] # "done" /\ av_pc'[t] = "done"
    /\ ~(av_pc[t] = "upload" /\ t \in av_blobs')

\* the try-on worker ended on a failure
ToWorkerFailed(t) ==
    /\ to_pc[t] # "done" /\ to_pc'[t] = "done"
    /\ ~(to_pc[t] = "save" /\ t \in to_rows')

\* C5: a worker that ends on a failure leaves its task, if still tracked, failed
\* with an error string; the failure is no outcome of an end-user call; a task has
\* an error only if it is failed.
C5_FailureRecorded ==
    [][/\ \A t \in AvCreated :
            AvWorkerFailed(t) =>
                /\ resp' = NoResp
                /\ t \in DOMAIN av_tasks' =>
                    av_tasks'[t].status = "failed" /\ av_tasks'[t].error # None
       /\ \A t \in ToCreated :
            ToWorkerFailed(t) =>
                /\ resp' = NoResp
                /\ t \in DOMAIN to_tasks' =>
                    to_tasks'[t].status = "failed" /\ to_tasks'[t].error # None
       /\ \A t \in DOMAIN av_tasks' :
            av_tasks'[t].error # None => av_tasks'[t].status = "failed"
       /\ \A t \in DOMAIN to_tasks' :
            to_tasks'[t].error # None => to_tasks'[t].status = "failed"
       /\ resp'.op \in {"start_generation", "start_try_on"} => resp'.outcome = "ok"]_vars

\* a tracked avatar task whose image generation or upload failed
C5_Witness ==
    \E t \in AvActive :
        /\ av_pc[t] = "done" /\ av_tasks[t].status = "failed"
        /\ av_tasks[t].progress >= AvProgressBase

\* what a get_status call must answer in the current state of a tracker
StatusContract(tasks, result_of) ==
    LET t == resp.task
        u == resp.user
    IN  /\ t \notin DOMAIN tasks => resp.outcome = "not_found"
        /\ (t \in DOMAIN tasks /\ tasks[t].user_id # u) => resp.outcome = "not_authorized"
        /\ (t \in DOMAIN tasks /\ tasks[t].user_id = u) =>
                /\ resp.outcome = "ok"
                /\ resp.status = tasks[t].status
                /\ resp.progress = tasks[t].progress
                /\ resp.result = result_of[t]
                /\ resp.error = tasks[t].error
        /\ resp.outcome # "ok" =>
                /\ resp.status = "none" /\ resp.progress = 0
                /\ resp.result = None /\ resp.error = None

\* C6: get_status answers not-found for an unknown id whoever asks, not-authorized
\* for a task of another user, and the task's status, progress, result and error
\* to its owner only.
C6_GetStatus ==
    resp.op = "get_status" =>
        /\ resp.svc = "avatar" =>
            StatusContract(av_tasks, [t \in AvActive |-> av_tasks[t].result])
        /\ resp.svc = "tryon" =>
            StatusContract(to_tasks, [t \in ToActive |-> to_tasks[t].result_url])

\* a poll of a completed avatar task by a user who does not own it
C6_Witness ==
    /\ resp.op = "get_status" /\ resp.svc = "avatar" /\ resp.outcome = "not_authorized"
    /\ resp.task \in AvActive /\ av_tasks[resp.task].status = "completed"

\* C7: delete_avatar by a user who is not the owner fails with an authorization
\* error and leaves the task map and the blob storage unchanged; delete_avatar
\* removes a task only for its owner.
C7_DeleteOwnerOnly ==
    [][resp'.op = "delete_avatar" =>
        LET t == resp'.task
            u == resp'.user
        IN  /\ (t \in AvActive /\ av_tasks[t].user_id # u) =>
                /\ resp'.outcome = "not_authorized"
                /\ av_tasks' = av_tasks /\ av_blobs' = av_blobs
            /\ av_tasks' # av_tasks =>
                /\ t \in AvActive /\ av_tasks[t].user_id = u
                /\ av_tasks' = Without(av_tasks, t)
            /\ av_blobs' # av_blobs =>
                /\ t \in AvActive /\ av_tasks[t].user_id = u]_vars

\* a refused delete of a completed avatar whose blob is stored
C7_Witness ==
    /\ resp.op = "delete_avatar" /\ resp.outcome = "not_authorized"
    /\ resp.task \in AvActive /\ av_tasks[resp.task].status = "completed"
    /\ resp.task \in av_blobs

C21_CleanupSparesProcessing ==
    [][/\ \A t \in AvActive \ DOMAIN av_tasks' :
              av_tasks[t].status = "processing" => resp'.op = "delete_avatar"
       /\ \A t \in ToActive \ DOMAIN to_tasks' :
              to_tasks[t].status # "processing"]_vars

C23_MismatchForbidden ==
    [][(resp'.op \in {"generate_avatar", "virtual_try_on"}
        /\ resp'.outcome = "not_authorized") =>
           /\ resp'.http_status = 403
           /\ UNCHANGED <<av_tasks, av_pc, to_tasks, to_pc, processing_queue>>]_vars

\* C24: list_user_avatars(user_id) returns, once each, exactly the tasks of the
\* tracker that user_id owns and whose status is completed, never a task of
\* another user nor one that is processing or failed, and leaves the tracker
\* as it was.
C24_ListOwnCompleted ==
    [][resp'.op = "list_user_avatars" =>
           /\ {resp'.listed[i] : i \in DOMAIN resp'.listed}
                = {t \in AvActive : /\ av_tasks[t].user_id = resp'.user
                                    /\ av_tasks[t].status = "completed"}
           /\ \A i, j \in DOMAIN resp'.listed :
                  i # j => resp'.listed[i] # resp'.listed[j]
           /\ av_tasks' = av_tasks]_vars

C24_Witness ==
    /\ resp.op = "list_user_avatars"
    /\ Len(resp.listed) = 1
    /\ \E t \in AvActive : /\ av_tasks[t].status = "completed"
                           /\ av_tasks[t].user_id # resp.user

DeleteReturnedTrue(t) ==
    resp.op = "delete_avatar" /\ resp.outcome = "ok" /\ resp.task = t

\* C28: from the moment delete_avatar has returned True for a task, whatever
\* the task's worker does, the task id is never in the tracker again and
\* storage never holds an avatar blob of that task.
C28_DeletedStaysDeleted ==
    \A t \in AvatarIds :
        [](DeleteReturnedTrue(t) => [](t \notin AvActive /\ t \notin av_blobs))

\* C29: processing_queue holds no more task ids than there are try-on tasks
\* in status processing: the id of a task whose worker has finished has been
\* taken off the queue.
C29_QueueDrained ==
    Len(processing_queue)
        <= Cardinality({t \in ToActive : to_tasks[t].status = "processing"})

\* C30: when every external call returns or raises and the workers are
\* scheduled fairly, a task that is in a tracker with status processing is
\* eventually completed or failed, unless it is taken out of the tracker.
C30_TasksTerminate ==
    /\ \A t \in AvatarIds :
           (t \in AvActive /\ av_tasks[t].status = "processing")
               ~> (t \notin AvActive \/ av_tasks[t].status \in {"completed", "failed"})
    /\ \A t \in TryOnIds :
           (t \in ToActive /\ to_tasks[t].status = "processing")
               ~> (t \notin ToActive \/ to_tasks[t].status \in {"completed", "failed"})

C30_Witness ==
    \E t \in AvActive :
        /\ av_pc[t] = "done"
        /\ av_tasks[t].status = "completed"
        /\ av_tasks[t].progress = AvProgressDone

\* ---------------------------------------------------------------- claims: product matching
\* the searches of the call that were answered without an error
SurvivingCalls == SelectSeq(adapter_calls, LAMBDA c : ~c.outcome.raised)

\* what the platform loop collects from calls that all succeeded
RECURSIVE CandidatesOf(_, _)
CandidatesOf(source_product, calls) ==
    IF calls = << >>
    THEN << >>
    ELSE ScoredMatches(source_product, Head(calls).platform, Head(calls).outcome.hits)
             \o CandidatesOf(source_product, Tail(calls))

SomeSearchRaised == \E i \in DOMAIN adapter_calls : adapter_calls[i].outcome.raised

\* C9: an adapter whose search raises does not make find_matches raise; the
\* loop goes on to every other platform with an adapter, the failing platform
\* adds no candidate, and the call returns what the searches that succeeded
\* would have produced on their own.
C9_AdapterFailureTolerated ==
    /\ pm_resp.outcome = "raised" => pm_resp.error # "search"
    /\ fm.pc = "search" =>
           fm.matches = CandidatesOf(fm.source_product[1], SurvivingCalls)
    /\ pm_resp.outcome = "returned" =>
           /\ Len(adapter_calls) =
                  Cardinality({i \in DOMAIN fm.target_platforms :
                                   fm.target_platforms[i] \in platform_adapters})
           /\ pm_resp.matches =
                  SortMatches(CandidatesOf(fm.source_product[1], SurvivingCalls))
           /\ \A i \in DOMAIN adapter_calls :
                  adapter_calls[i].outcome.raised =>
                      \A k \in DOMAIN pm_resp.matches :
                          pm_resp.matches[k].platform # adapter_calls[i].platform
                          \/ \E j \in DOMAIN adapter_calls :
                                 /\ adapter_calls[j].platform = adapter_calls[i].platform
                                 /\ ~adapter_calls[j].outcome.raised

C9_Witness ==
    /\ pm_resp.outcome = "returned"
    /\ SomeSearchRaised
    /\ Len(adapter_calls) > 1
    /\ adapter_calls[1].outcome.raised
    /\ Len(pm_resp.matches) > 0

\* the extractor behind _extract_product_info raised, or nothing came back
ExtractionFailed ==
    /\ fm.fetched # None
    /\ \/ PlatformExtract(fm.source_url[1], fm.fetched[1]).raised
       \/ fm.source_product = None

\* C10: once the extraction of the source product has failed, the call has
\* ended with an error, no adapter was searched, and neither the cache nor
\* the database holds anything for the call.
C10_ExtractionFailureAborts ==
    ExtractionFailed =>
        /\ fm.pc = "idle"
        /\ pm_resp.outcome = "raised"
        /\ adapter_calls = << >>
        /\ fm.match_id \notin DOMAIN matching_cache
        /\ matching_cache = << >>
        /\ pm_rows = {}

C10_Witness ==
    /\ ExtractionFailed
    /\ pm_resp.outcome = "raised"
    /\ \E i \in DOMAIN fm.target_platforms : fm.target_platforms[i] \in platform_adapters

\* the requested platform ids that have an adapter, in request order
RegisteredTargets ==
    SelectSeq(fm.target_platforms, LAMBDA p : p \in platform_adapters)

\* C11: a requested platform id without an adapter raises nothing and is not
\* searched: the searches made are those of the requested ids that have an
\* adapter, in order, so the result is the one of the request without that
\* id, and every returned candidate carries a requested, registered id.
C11_UnknownPlatformSkipped ==
    /\ \A i \in DOMAIN adapter_calls : adapter_calls[i].platform \in platform_adapters
    /\ fm.pc = "search" => fm.target_platforms[fm.idx] \in platform_adapters
    /\ pm_resp.outcome = "raised" => pm_resp.error \in {"ValueError", "save"}
    /\ fm.pc = "save" \/ pm_resp.outcome = "returned" =>
           /\ [i \in DOMAIN adapter_calls |-> adapter_calls[i].platform]
                  = RegisteredTargets
           /\ fm.matches =
                  SortMatches(CandidatesOf(fm.source_product[1], SurvivingCalls))
           /\ \A k \in DOMAIN fm.matches :
                  /\ fm.matches[k].platform \in platform_adapters
                  /\ \E i \in DOMAIN fm.target_platforms :
                         fm.target_platforms[i] = fm.matches[k].platform

C11_Witness ==
    /\ pm_resp.outcome = "returned"
    /\ Len(fm.target_platforms) > 1
    /\ fm.target_platforms[1] \notin platform_adapters
    /\ Len(pm_resp.matches) > 0

\* r holds the elements of c, by descending score, equal scores in c's order
IsStableDescending(r, c) ==
    /\ Len(r) = Len(c)
    /\ \E p \in Permutations(DOMAIN c) :
           /\ \A k \in DOMAIN r : r[k] = c[p[k]]
           /\ \A k, l \in DOMAIN r :
                  k < l =>
                      \/ r[k].relevance_score > r[l].relevance_score
                      \/ /\ r[k].relevance_score = r[l].relevance_score
                         /\ p[k] < p[l]

\* C12: the sequence find_matches returns, which is the one it stored in the
\* MatchResult, holds the collected candidates in descending score order,
\* candidates of equal score in the order they were collected (request order
\* of the platforms, then the adapter's order).
C12_SortedStable ==
    /\ fm.pc = "save" =>
           /\ IsStableDescending(fm.matches,
                                 CandidatesOf(fm.source_product[1], SurvivingCalls))
           /\ matching_cache[fm.match_id].matches = fm.matches
    /\ pm_resp.outcome = "returned" =>
           /\ IsStableDescending(pm_resp.matches,
                                 CandidatesOf(fm.source_product[1], SurvivingCalls))
           /\ matching_cache[fm.match_id].matches = pm_resp.matches

C12_Witness ==
    /\ pm_resp.outcome = "returned"
    /\ pm_resp.matches # CandidatesOf(fm.source_product[1], SurvivingCalls)
    /\ \E k, l \in DOMAIN pm_resp.matches :
           /\ k < l
           /\ pm_resp.matches[k].relevance_score = pm_resp.matches[l].relevance_score
           /\ pm_resp.matches[k].platform # pm_resp.matches[l].platform

\* every candidate of the sequence carries the score of its product against
\* the source product, and that score is above the threshold
AllAboveThreshold(matches) ==
    \A k \in DOMAIN matches :
        /\ matches[k].relevance_score =
               _calculate_relevance_score(fm.source_product[1], matches[k].product)
        /\ matches[k].relevance_score > MinRelevance * SimUnit

\* C13: every candidate find_matches collects, stores or returns scores
\* strictly above 0.3, so a search hit scoring 0.3 or less is in none of them.
C13_AboveThreshold ==
    /\ AllAboveThreshold(fm.matches)
    /\ AllAboveThreshold(pm_resp.matches)
    /\ \A id \in DOMAIN matching_cache : AllAboveThreshold(matching_cache[id].matches)

C13_Witness ==
    /\ pm_resp.outcome = "returned"
    /\ Len(pm_resp.matches) > 0
    /\ \E i \in DOMAIN adapter_calls :
           \E j \in DOMAIN adapter_calls[i].outcome.hits :
               _calculate_relevance_score(fm.source_product[1],
                                          adapter_calls[i].outcome.hits[j])
                   = MinRelevance * SimUnit

\* C26: when find_matches has raised, matching_cache is as it was before the
\* call (empty), and every MatchResult in matching_cache of a call that has
\* ended was saved by _save_match_result.
C26_RaiseLeavesCache ==
    /\ pm_resp.outcome = "raised" => matching_cache = << >>
    /\ fm.pc = "idle" => \A id \in DOMAIN matching_cache : id \in pm_rows

\* C27: within a find_matches call no platform's adapter is searched twice
\* and no hit of an adapter search is twice in the returned sequence, whatever
\* list of platform ids the call was given.
C27_SearchedOnce ==
    /\ \A i, j \in DOMAIN adapter_calls :
           i # j => adapter_calls[i].platform # adapter_calls[j].platform
    /\ pm_resp.outcome = "returned" =>
           \A i, j \in DOMAIN pm_resp.matches :
               i # j => pm_resp.matches[i] # pm_resp.matches[j]

\* ---------------------------------------------------------------- claims: scoring functions
\* C14: whatever of brand, category, description and price the two records
\* carry, and whatever the prices (zero and negative amounts included),
\* _calculate_relevance_score returns a value from 0.0 to 1.0.
C14_ScoreInUnitInterval ==
    fn_call.fn = "relevance_score" =>
        /\ fn_result >= 0
        /\ fn_result <= 100 * SimUnit

C14_Witness ==
    /\ fn_call.fn = "relevance_score"
    /\ fn_call.a.price = <<-100>>
    /\ fn_call.b.price = <<100>>
    /\ WordSet(fn_call.a.name) = WordSet(fn_call.b.name)
    /\ fn_call.a.name # << >>
    /\ fn_result = 100 * SimUnit

\* C15: text similarity is symmetric, is 1.0 for a non-empty string against
\* itself, is 0.0 when either string is empty, and is the Jaccard coefficient
\* of the two sets of lower-cased whitespace-separated tokens.
C15_TextSimilarityLaws ==
    fn_call.fn = "text_similarity" =>
        LET a == fn_call.a
            b == fn_call.b
        IN  /\ fn_result = _calculate_text_similarity(b, a)
            /\ (a = b /\ a # << >>) => fn_result = SimUnit
            /\ (a = << >> \/ b = << >>) => fn_result = 0
            /\ (WordSet(a) # {} /\ WordSet(b) # {}) =>
                   fn_result * Cardinality(WordSet(a) \cup WordSet(b))
                       = SimUnit * Cardinality(WordSet(a) \cap WordSet(b))

\* weight times similarity for a text attribute carried by both records
TextTerm(weight, text1, text2) ==
    IF text1 # << >> /\ text2 # << >>
    THEN weight * _calculate_text_similarity(text1, text2)
    ELSE 0

\* weight times similarity for the price, when both records carry one
PriceTerm(source_product, target_product) ==
    IF source_product.price # None /\ target_product.price # None
    THEN WeightPrice *
             Max(0, SimUnit - Quotient(Abs(source_product.price[1]
                                               - target_product.price[1]) * SimUnit,
                                       source_product.price[1]))
    ELSE 0

\* the sum the spec describes, without renormalization
WeightedSum(source_product, target_product) ==
    WeightName * _calculate_text_similarity(source_product.name, target_product.name)
        + TextTerm(WeightBrand, source_product.brand, target_product.brand)
        + TextTerm(WeightCategory, source_product.category, target_product.category)
        + PriceTerm(source_product, target_product)
        + TextTerm(WeightDescription, source_product.description,
                   target_product.description)

\* the candidate record with one of its optional attributes removed
Stripped(target_product) ==
    {[target_product EXCEPT !.brand = << >>],
     [target_product EXCEPT !.category = << >>],
     [target_product EXCEPT !.price = None],
     [target_product EXCEPT !.description = << >>]}

MissingRequiredFields ==
    /\ fm.fetched # None
    /\ fm.source_url[1].domain = "amazon"
    /\ fm.source_url[1].has_id
    /\ ~fm.fetched[1].raised
    /\ fm.fetched[1].name = << >>

\* C20: once the source of a recognised platform url has answered a record
\* without its required fields, the call has ended with an error, no adapter
\* was searched, and neither the cache nor the database holds a result.
C20_MissingFieldsAbort ==
    MissingRequiredFields =>
        /\ fm.pc = "idle"
        /\ pm_resp.outcome = "raised"
        /\ adapter_calls = << >>
        /\ matching_cache = << >>
        /\ pm_rows = {}

\* ---------------------------------------------------------------- claims: price comparison
\* the items of a dict whose price is not None
NonNull(price_comparison) ==
    SelectSeq(price_comparison, LAMBDA item : item.value.price # None)

NonNullPrices(price_comparison) ==
    LET priced == NonNull(price_comparison)
    IN  [i \in DOMAIN priced |-> priced[i].value.price[1]]

RequestedRegistered ==
    LET target_platforms == IF cp.platforms = None \/ cp.platforms = << << >> >>
                            THEN AdapterOrder
                            ELSE cp.platforms[1]
    IN  {target_platforms[i] : i \in DOMAIN target_platforms} \cap platform_adapters

\* C18: when compare_prices returns for a stored product, get_product_price
\* was called with the product's id on the adapter of every requested
\* registered platform (all of them when none is requested), and every price
\* record an adapter returned is in price_comparison under its platform.
C18_EveryAdapterAsked ==
    cp_resp.outcome = "returned" =>
        /\ \A platform \in RequestedRegistered :
               \E i \in DOMAIN price_calls :
                   /\ price_calls[i].platform = platform
                   /\ price_calls[i].product_id = cp.product_id[1]
        /\ \A i \in DOMAIN price_calls :
               (~price_calls[i].answer.raised
                /\ price_calls[i].answer.price_info # None) =>
                   \E j \in DOMAIN cp_resp.price_comparison :
                       /\ cp_resp.price_comparison[j].key = price_calls[i].platform
                       /\ cp_resp.price_comparison[j].value
                            = price_calls[i].answer.price_info[1]

ZeroStatistics ==
    [min_price |-> 0, max_price |-> 0, avg_price |-> 0, price_range |-> 0,
     best_deals |-> << >>]

\* some item of the dict has a price the statistics count
SomePriceCounted(price_comparison) ==
    \E i \in DOMAIN price_comparison :
        price_comparison[i].value.price \notin {None, <<0>>}

\* C19: without a counted price the statistics are min_price, max_price,
\* avg_price and price_range 0 with best_deals empty, and a compare_prices call
\* for a stored product returns; best_deals is non-empty exactly when some
\* platform has a price counted in the statistics.
C19_ZeroDefaults ==
    /\ fn_call.fn = "statistics" =>
           /\ ~SomePriceCounted(fn_call.a) => fn_result = ZeroStatistics
           /\ fn_result.best_deals # << >> <=> SomePriceCounted(fn_call.a)
    /\ cp_resp.outcome = "returned" =>
           /\ ~SomePriceCounted(cp_resp.price_comparison) =>
                  cp_resp.statistics = <<ZeroStatistics>>
           /\ cp_resp.statistics[1].best_deals # << >>
                  <=> SomePriceCounted(cp_resp.price_comparison)

C19_Witness ==
    /\ fn_call.fn = "statistics"
    /\ Len(fn_call.a) >= 2
    /\ ~SomePriceCounted(fn_call.a)
    /\ fn_result = ZeroStatistics
    /\ cp_resp.outcome = "returned"
    /\ cp_resp.statistics = <<ZeroStatistics>>

====
